---- MODULE Spec2Model ----
(***************************************************************************)
(* A model of prestapyt's PrestaShopWebService (src/prestapyt/prestapyt.py):*)
(* the client configuration set by the constructor, and one call of a      *)
(* public operation at a time, in three steps: the operation builds its    *)
(* request, _execute performs the HTTP exchange and checks status and      *)
(* version, and the operation turns the response into its result.          *)
(*                                                                         *)
(* Text is a sequence of tokens.  A token is one delimiter character       *)
(* ("/", "[", "=", "<", ...), one decimal digit, or one word of letters    *)
(* that holds no delimiter; two texts are equal iff their token sequences  *)
(* are equal.                                                              *)
(***************************************************************************)
EXTENDS Integers, Sequences, FiniteSets, TLC

VARIABLES
    api_url,     \* self._api_url, normalized by the constructor
    debug,       \* self.debug
    parse_type,  \* self.parse_type, the default parse mode
    headers,     \* self.headers
    pc,          \* position of the current call: idle, request, response, done
    op,          \* the public operation called
    optarg,      \* the caller's options mapping, as the call has left it
    arg,         \* the other arguments of the call
    req,         \* the request handed to the transport
    exchanges,   \* HTTP exchanges performed by the current call
    resp,        \* the response of the transport
    parses,      \* calls of ElementTree.fromstring by the current call
    validated,   \* what _validate did in the current call, if it ran
    outcome      \* what the call returns or raises

vars == <<api_url, debug, parse_type, headers, pc, op, optarg, arg, req,
          exchanges, resp, parses, validated, outcome>>

----------------------------------------------------------------------------
(* Bounds of the model *)

\* longest list of ids handed to delete
MaxIds == 2
\* ids of a list are drawn from 1..MaxId
MaxId == 2
\* most keys in an options mapping
MaxOptions == 2

----------------------------------------------------------------------------
(* Text helpers *)

Digits == <<"0", "1", "2", "3", "4", "5", "6", "7", "8", "9">>

IsDigit(t) == \E i \in 1..10 : Digits[i] = t

DigitValue(t) == (CHOOSE i \in 1..10 : Digits[i] = t) - 1

\* str(n) of a non-negative int
RECURSIVE Str(_)
Str(n) == IF n < 10 THEN <<Digits[n + 1]>>
          ELSE Str(n \div 10) \o <<Digits[(n % 10) + 1]>>

\* int(s) of a text of digits
RECURSIVE ParseInt(_)
ParseInt(s) == IF s = <<>> THEN 0
               ELSE 10 * ParseInt(SubSeq(s, 1, Len(s) - 1)) + DigitValue(s[Len(s)])

\* s.endswith(suffix)
EndsWith(s, suffix) ==
    /\ Len(s) >= Len(suffix)
    /\ SubSeq(s, Len(s) - Len(suffix) + 1, Len(s)) = suffix

\* sep.join(parts)
RECURSIVE Join(_, _)
Join(sep, parts) ==
    IF parts = <<>> THEN <<>>
    ELSE IF Len(parts) = 1 THEN parts[1]
    ELSE parts[1] \o sep \o Join(sep, Tail(parts))

\* s.split('[')[0]: the text before the first "["
RECURSIVE BeforeBracket(_)
BeforeBracket(s) ==
    IF s = <<>> THEN <<>>
    ELSE IF Head(s) = "[" THEN <<>>
    ELSE <<Head(s)>> \o BeforeBracket(Tail(s))

\* urllib.quote_plus of one token: letters, digits and "_.-" are kept, a
\* space becomes "+", any other character its %XX escape
QuoteToken(t) ==
    CASE t = " " -> "+"
      [] t = "<" -> "%3C"
      [] t = ">" -> "%3E"
      [] t = "/" -> "%2F"
      [] t = "[" -> "%5B"
      [] t = "]" -> "%5D"
      [] t = "=" -> "%3D"
      [] t = "," -> "%2C"
      [] t = "|" -> "%7C"
      [] t = ":" -> "%3A"
      [] t = "?" -> "%3F"
      [] t = "&" -> "%26"
      [] OTHER -> t

QuotePlus(s) == [i \in 1..Len(s) |-> QuoteToken(s[i])]

----------------------------------------------------------------------------
(* Optional values, errors and results *)

\* Python's None where a text may stand
NoText == [present |-> FALSE, value |-> <<>>]

SomeText(t) == [present |-> TRUE, value |-> t]

\* error_code=None
NoCode == [present |-> FALSE, value |-> 0]

SomeCode(n) == [present |-> TRUE, value |-> n]

NoValue == [type |-> "none", data |-> <<>>]

\* the call is still running
Running == [kind |-> "none", label |-> "", args |-> <<>>, names |-> {},
            code |-> NoCode, value |-> NoValue]

\* a check that returned True without raising
Passed == [kind |-> "pass", label |-> "", args |-> <<>>, names |-> {},
           code |-> NoCode, value |-> NoValue]

\* raise kind(label % args, code); names holds the members of a set that the
\* message joins in an order the code leaves open
Raise(kind, label, args, names, code) ==
    [kind |-> kind, label |-> label, args |-> args, names |-> names,
     code |-> code, value |-> NoValue]

Return(type, data) ==
    [kind |-> "return", label |-> "", args |-> <<>>, names |-> {},
     code |-> NoCode, value |-> [type |-> type, data |-> data]]

Raised(o) == o.kind \notin {"none", "pass", "return"}

\* class PrestaShopAuthenticationError(PrestaShopWebServiceError)
IsWebServiceError(kind) ==
    kind \in {"PrestaShopWebServiceError", "PrestaShopAuthenticationError"}

----------------------------------------------------------------------------
(* The constructor *)

\* __init__: a trailing "/" and then a trailing "/api/" are added when missing
NormalizeUrl(raw) ==
    LET slashed == IF EndsWith(raw, <<"/">>) THEN raw ELSE raw \o <<"/">>
    IN  IF EndsWith(slashed, <<"/", "api", "/">>) THEN slashed
        ELSE slashed \o <<"api", "/">>

DefaultHeaders == [n \in {"User-agent"} |-> "Prestapyt: Python Prestashop Library"]

\* __init__: the default header is used when headers is None
InitHeaders(given) == IF given.present THEN given.value ELSE DefaultHeaders

\* dict.copy() followed by dict.update(add)
Update(h, add) ==
    [n \in (DOMAIN h) \cup (DOMAIN add) |-> IF n \in DOMAIN add THEN add[n] ELSE h[n]]

----------------------------------------------------------------------------
(* _check_status_code *)

message_by_code ==
    [c \in {204, 400, 401, 404, 405, 500} |->
        CASE c = 204 -> "No content"
          [] c = 400 -> "Bad Request"
          [] c = 401 -> "Unauthorized"
          [] c = 404 -> "Not Found"
          [] c = 405 -> "Method Not Allowed"
          [] c = 500 -> "Internal Server Error"]

error_label == "This call to PrestaShop Web Services failed and returned an HTTP status of %d. That means: %s."

unexpected_label == "This call to PrestaShop Web Services returned an unexpected HTTP status of: %d"

\* a plausible slip: 204 No content taken for a success, 401 not told apart
CheckStatusCodeLax(status_code) ==
    IF status_code \in {200, 201, 204} THEN Passed
    ELSE IF status_code \in DOMAIN message_by_code
    THEN Raise("PrestaShopWebServiceError", error_label,
               <<Str(status_code), <<message_by_code[status_code]>>>>, {},
               SomeCode(status_code))
    ELSE Raise("PrestaShopWebServiceError", unexpected_label,
               <<Str(status_code)>>, {}, SomeCode(status_code))

CheckStatusCode(status_code) ==
    IF status_code \in {200, 201} THEN Passed
    ELSE IF status_code = 401
    THEN Raise("PrestaShopAuthenticationError", error_label,
               <<Str(status_code), <<message_by_code[status_code]>>>>, {},
               SomeCode(status_code))
    ELSE IF status_code \in DOMAIN message_by_code
    THEN Raise("PrestaShopWebServiceError", error_label,
               <<Str(status_code), <<message_by_code[status_code]>>>>, {},
               SomeCode(status_code))
    ELSE Raise("PrestaShopWebServiceError", unexpected_label,
               <<Str(status_code)>>, {}, SomeCode(status_code))

----------------------------------------------------------------------------
(* _check_version, with distutils' LooseVersion *)

\* "1.4.0.17"
MIN_COMPATIBLE_VERSION == <<"1", ".", "4", ".", "0", ".", "1", "7">>

\* "1.4.7.5"
MAX_COMPATIBLE_VERSION == <<"1", ".", "4", ".", "7", ".", "5">>

\* a component of a LooseVersion: an int or a run of letters
NumComponent(n) == [num |-> TRUE, n |-> n, s |-> ""]

WordComponent(w) == [num |-> FALSE, n |-> 0, s |-> w]

FlushRun(run) == IF run = <<>> THEN <<>> ELSE <<NumComponent(ParseInt(run))>>

\* LooseVersion.parse: the text is cut into runs of digits, runs of letters
\* and dots; the dots are dropped and the runs of digits become ints
RECURSIVE ParseComponents(_, _)
ParseComponents(s, run) ==
    IF s = <<>> THEN FlushRun(run)
    ELSE IF IsDigit(Head(s)) THEN ParseComponents(Tail(s), run \o <<Head(s)>>)
    ELSE FlushRun(run)
         \o (IF Head(s) = "." THEN <<>> ELSE <<WordComponent(Head(s))>>)
         \o ParseComponents(Tail(s), <<>>)

LooseVersion(s) == ParseComponents(s, <<>>)

\* the letter runs the model's versions use, in str order
Words == <<"a", "b", "rc">>

WordRank(w) == CHOOSE i \in 1..Len(Words) : Words[i] = w

\* Python 2's order of list items: ints by value, an int before any str,
\* strs in str order
ComponentLess(x, y) ==
    IF x.num /\ y.num THEN x.n < y.n
    ELSE IF x.num THEN TRUE
    ELSE IF y.num THEN FALSE
    ELSE WordRank(x.s) < WordRank(y.s)

\* LooseVersion.__cmp__: cmp of the two component lists
RECURSIVE VersionLess(_, _)
VersionLess(a, b) ==
    IF b = <<>> THEN FALSE
    ELSE IF a = <<>> THEN TRUE
    ELSE IF ComponentLess(Head(a), Head(b)) THEN TRUE
    ELSE IF ComponentLess(Head(b), Head(a)) THEN FALSE
    ELSE VersionLess(Tail(a), Tail(b))

incompatible_label == "This library is not compatible with this version of PrestaShop (%s). Please upgrade/downgrade this library"

\* a plausible slip: the bounds themselves accepted
CheckVersionInclusive(version) ==
    IF version.present /\ version.value # <<>>
    THEN IF ~ /\ ~VersionLess(LooseVersion(version.value), LooseVersion(MIN_COMPATIBLE_VERSION))
              /\ ~VersionLess(LooseVersion(MAX_COMPATIBLE_VERSION), LooseVersion(version.value))
         THEN Raise("PrestaShopWebServiceError", incompatible_label,
                    <<version.value>>, {}, NoCode)
         ELSE Passed
    ELSE Passed

\* `if version:` is false for None and for the empty text
CheckVersion(version) ==
    IF version.present /\ version.value # <<>>
    THEN IF ~ /\ VersionLess(LooseVersion(MIN_COMPATIBLE_VERSION), LooseVersion(version.value))
              /\ VersionLess(LooseVersion(version.value), LooseVersion(MAX_COMPATIBLE_VERSION))
         THEN Raise("PrestaShopWebServiceError", incompatible_label,
                    <<version.value>>, {}, NoCode)
         ELSE Passed
    ELSE Passed

----------------------------------------------------------------------------
(* _validate and _options_to_querystring *)

\* an options argument: None, a dict (a function from key texts to value
\* texts) or some other object
NoOptions == [kind |-> "none", map |-> <<>>]

DictOptions(m) == [kind |-> "dict", map |-> m]

OtherOptions == [kind |-> "other", map |-> <<>>]

supported == {<<"filter">>, <<"display">>, <<"sort">>, <<"limit">>, <<"schema">>}

\* a plausible slip: only one of the unsupported parameters is reported
ValidateFirstOnly(options) ==
    IF options.kind # "dict"
    THEN [result |-> Raise("PrestaShopWebServiceError",
                           "Parameters must be a instance of dict", <<>>, {}, NoCode),
          options |-> options]
    ELSE LET unsupported == {BeforeBracket(param) : param \in DOMAIN options.map} \ supported
         IN  IF unsupported # {}
             THEN [result |-> Raise("PrestaShopWebServiceError",
                                    "Unsupported parameters: %s", <<>>,
                                    {CHOOSE u \in unsupported : TRUE}, NoCode),
                   options |-> options]
             ELSE [result |-> Passed, options |-> options]

\* _validate: what it returns or raises, and the mapping as it leaves it
Validate(options) ==
    IF options.kind # "dict"
    THEN [result |-> Raise("PrestaShopWebServiceError",
                           "Parameters must be a instance of dict", <<>>, {}, NoCode),
          options |-> options]
    ELSE LET unsupported == {BeforeBracket(param) : param \in DOMAIN options.map} \ supported
         IN  IF unsupported # {}
             THEN [result |-> Raise("PrestaShopWebServiceError",
                                    "Unsupported parameters: %s", <<>>,
                                    unsupported, NoCode),
                   options |-> options]
             ELSE [result |-> Passed, options |-> options]

\* the order in which a dict hands out its keys: fixed for a given dict, and
\* here the order of this list
KeyOrder ==
    << <<"display">>, <<"filter", "[", "id", "]">>, <<"limit">>, <<"debug">>,
       <<"bogus">>, <<"price", "[", "x", "]">>, <<"price", "[", "y", "]">> >>

RECURSIVE ItemsFrom(_, _)
ItemsFrom(m, i) ==
    IF i > Len(KeyOrder) THEN <<>>
    ELSE (IF KeyOrder[i] \in DOMAIN m THEN << <<KeyOrder[i], m[KeyOrder[i]]>> >> ELSE <<>>)
         \o ItemsFrom(m, i + 1)

\* dict.items()
Items(m) == ItemsFrom(m, 1)

\* urllib.urlencode: k=v pairs, each side quote_plus'ed, joined by "&"
UrlEncode(items) ==
    Join(<<"&">>, [i \in 1..Len(items) |->
                      QuotePlus(items[i][1]) \o <<"=">> \o QuotePlus(items[i][2])])

\* str(True)
TrueText == <<"True">>

\* _options_to_querystring: the text, and the mapping as it leaves it
OptionsToQuerystring(self, options) ==
    LET updated == IF self.debug
                   THEN DictOptions(Update(options.map,
                                           [k \in {<<"debug">>} |-> TrueText]))
                   ELSE options
    IN  [text |-> UrlEncode(Items(updated.map)), options |-> updated]

----------------------------------------------------------------------------
(* The XML codec: ElementTree.fromstring, xml2dict.ET2dict, dict2xml.dict2xml *)

\* an ElementTree element
Element(tag, text, kids) == [tag |-> tag, text |-> text, kids |-> kids]

\* a node of a nested mapping: a leaf text, or a dict as its items in order
Leaf(text) == [kind |-> "leaf", text |-> text, items |-> <<>>]

Dict(items) == [kind |-> "dict", text |-> <<>>, items |-> items]

RECURSIVE Serialize(_)
Serialize(e) ==
    <<"<", e.tag, ">">>
    \o e.text
    \o (IF e.kids = <<>> THEN <<>>
        ELSE Join(<<>>, [i \in 1..Len(e.kids) |-> Serialize(e.kids[i])]))
    \o <<"<", "/", e.tag, ">">>

\* <prestashop><address><firstname>Robert</firstname></address></prestashop>
AddressElement ==
    Element("prestashop", <<>>,
            <<Element("address", <<>>,
                      <<Element("firstname", <<"Robert">>, <<>>)>>)>>)

\* <error>oops</error>: well-formed, with another root than prestashop
ErrorElement == Element("error", <<"oops">>, <<>>)

\* the documents the model's server sends
Elements == {AddressElement, ErrorElement}

\* ElementTree.fromstring: the element of a well-formed document, and an
\* ExpatError for any other text
FromString(content) ==
    IF \E e \in Elements : Serialize(e) = content
    THEN [ok |-> TRUE, elem |-> CHOOSE e \in Elements : Serialize(e) = content]
    ELSE [ok |-> FALSE, elem |-> Element("", <<>>, <<>>)]

\* xml2dict: the content of an element, a leaf text or a mapping of its children
RECURSIVE ElementContent(_)
ElementContent(e) ==
    IF e.kids = <<>> THEN Leaf(e.text)
    ELSE Dict([i \in 1..Len(e.kids) |-> <<e.kids[i].tag, ElementContent(e.kids[i])>>])

\* xml2dict.ET2dict: a mapping with the root's tag as its one key
ET2dict(e) == Dict(<< <<e.tag, ElementContent(e)>> >>)

\* dict2xml.dict2xml: each key an element around its value
RECURSIVE dict2xml(_)
dict2xml(node) ==
    IF node.kind = "leaf" THEN node.text
    ELSE Join(<<>>, [i \in 1..Len(node.items) |->
                        <<"<", node.items[i][1], ">">>
                        \o dict2xml(node.items[i][2])
                        \o <<"<", "/", node.items[i][1], ">">>])

\* unicode_encode.encode: the text as bytes; ASCII is kept as it is
unicode_encode(xml) ==
    Join(<<>>, [i \in 1..Len(xml) |->
                   IF xml[i] = "e_acute" THEN <<"0xC3", "0xA9">> ELSE <<xml[i]>>])

HasKey(node, key) == \E i \in 1..Len(node.items) : node.items[i][1] = key

\* node[key]
ItemOf(node, key) ==
    node.items[CHOOSE i \in 1..Len(node.items) : node.items[i][1] = key][2]

\* a plausible slip: the parser is run before the body is looked at
ParseUnguarded(self, content, ptype) ==
    LET pt == IF ptype.present THEN ptype.value ELSE self.parse_type
        parsed == FromString(content)
    IN  IF ~parsed.ok
        THEN [result |-> Raise("PrestaShopWebServiceError",
                               "HTTP XML response is not parsable : %s", <<>>, {}, NoCode),
              parses |-> 1]
        ELSE IF pt = "dict"
        THEN [result |-> Return("dict", ET2dict(parsed.elem)), parses |-> 1]
        ELSE IF pt # "xml"
        THEN [result |-> Raise("Exception", "Code error. Parse type %s not supported!",
                               <<pt>>, {}, NoCode),
              parses |-> 1]
        ELSE [result |-> Return("Element", parsed.elem), parses |-> 1]

\* _parse: what it returns or raises, and how often it ran the XML parser
Parse(self, content, ptype) ==
    IF content = <<>>
    THEN [result |-> Raise("PrestaShopWebServiceError", "HTTP response is empty",
                           <<>>, {}, NoCode),
          parses |-> 0]
    ELSE LET pt == IF ptype.present THEN ptype.value ELSE self.parse_type
             parsed == FromString(content)
         IN  IF ~parsed.ok
             THEN [result |-> Raise("PrestaShopWebServiceError",
                                    "HTTP XML response is not parsable : %s", <<>>, {}, NoCode),
                   parses |-> 1]
             ELSE IF pt = "dict"
             THEN [result |-> Return("dict", ET2dict(parsed.elem)), parses |-> 1]
             ELSE IF pt # "xml"
             THEN [result |-> Raise("Exception", "Code error. Parse type %s not supported!",
                                    <<pt>>, {}, NoCode),
                   parses |-> 1]
             ELSE [result |-> Return("Element", parsed.elem), parses |-> 1]

----------------------------------------------------------------------------
(* Arguments, requests and responses *)

NoId == [present |-> FALSE, value |-> 0]

SomeId(n) == [present |-> TRUE, value |-> n]

\* parse_type=None
NoMode == [present |-> FALSE, value |-> ""]

SomeMode(m) == [present |-> TRUE, value |-> m]

\* content: a full XML text, or a dict of values
XmlContent(xml) == [isdict |-> FALSE, xml |-> xml, node |-> Leaf(<<>>)]

DictContent(node) == [isdict |-> TRUE, xml |-> <<>>, node |-> node]

\* resource_ids: a list or tuple of ids, or one id
IdList(l) == [islist |-> TRUE, list |-> l, scalar |-> 0]

OneId(n) == [islist |-> FALSE, list |-> <<>>, scalar |-> n]

BlankArg ==
    [resource |-> <<>>, resource_id |-> NoId, url |-> <<>>,
     content |-> XmlContent(<<>>), ptype |-> NoMode, ids |-> OneId(0),
     options |-> NoOptions]

NoHeaders == [n \in {} |-> ""]

NoRequest == [url |-> <<>>, method |-> "", body |-> NoText, headers |-> NoHeaders]

NoResponse == [header |-> [status |-> <<>>, psws |-> NoText], content |-> <<>>]

NotValidated == [ran |-> FALSE, result |-> Running, options |-> NoOptions]

\* the instance a method runs on
Self == [api_url |-> api_url, debug |-> debug, parse_type |-> parse_type,
         headers |-> headers]

----------------------------------------------------------------------------
(* _execute *)

\* the request _execute hands to client.request
ExecuteRequest(self, url, method, body, add_headers) ==
    [url |-> url, method |-> method, body |-> body,
     headers |-> Update(self.headers, add_headers)]

\* _execute once client.request has answered: the two checks, then the
\* tuple (status code, header, content)
Execute(self, response) ==
    LET status_code == ParseInt(response.header.status)
        status == CheckStatusCode(status_code)
        version == CheckVersion(response.header.psws)
    IN  IF Raised(status) THEN status
        ELSE IF Raised(version) THEN version
        ELSE Return("tuple", [status_code |-> status_code,
                              header |-> response.header,
                              content |-> response.content])

----------------------------------------------------------------------------
(* The public operations: the request each builds *)

form_headers == [n \in {"Content-Type"} |-> "application/x-www-form-urlencoded"]

\* what an operation has done when it reaches client.request, or raised before
Prepared(result, request, options, seen) ==
    [result |-> result, req |-> request, options |-> options, validated |-> seen]

AddWithUrlRequest(self, url, xml) ==
    Prepared(Running,
             ExecuteRequest(self, url, "POST",
                            SomeText(UrlEncode(<< <<<<"xml">>, xml>> >>)), form_headers),
             NoOptions, NotValidated)

\* {'prestashop': content} through dict2xml when content is a dict
RootContent(content) ==
    IF content.isdict THEN dict2xml(Dict(<< <<"prestashop", content.node>> >>))
    ELSE content.xml

AddRequest(self, resource, content) ==
    AddWithUrlRequest(self, self.api_url \o resource, RootContent(content))

GetWithUrlRequest(self, url) ==
    Prepared(Running, ExecuteRequest(self, url, "GET", NoText, NoHeaders),
             NoOptions, NotValidated)

HeadWithUrlRequest(self, url) ==
    Prepared(Running, ExecuteRequest(self, url, "HEAD", NoText, NoHeaders),
             NoOptions, NotValidated)

\* a plausible slip: the options go into the url without being validated
ResourceUrlUnchecked(self, resource, resource_id, options) ==
    LET full_url == IF resource_id.present
                    THEN self.api_url \o resource \o <<"/">> \o Str(resource_id.value)
                    ELSE self.api_url \o resource
    IN  IF options.kind # "dict"
        THEN [result |-> Running, url |-> full_url, options |-> options,
              validated |-> NotValidated]
        ELSE LET q == OptionsToQuerystring(self, options)
             IN  [result |-> Running, url |-> full_url \o <<"?">> \o q.text,
                  options |-> q.options, validated |-> NotValidated]

\* get and head: the url from the resource, the id and the options
ResourceUrl(self, resource, resource_id, options) ==
    LET full_url == IF resource_id.present
                    THEN self.api_url \o resource \o <<"/">> \o Str(resource_id.value)
                    ELSE self.api_url \o resource
    IN  IF options.kind = "none"
        THEN [result |-> Running, url |-> full_url, options |-> options,
              validated |-> NotValidated]
        ELSE LET v == Validate(options)
                 seen == [ran |-> TRUE, result |-> v.result, options |-> v.options]
             IN  IF Raised(v.result)
                 THEN [result |-> v.result, url |-> full_url, options |-> v.options,
                       validated |-> seen]
                 ELSE LET q == OptionsToQuerystring(self, v.options)
                      IN  [result |-> Running, url |-> full_url \o <<"?">> \o q.text,
                           options |-> q.options, validated |-> seen]

GetRequest(self, resource, resource_id, options) ==
    LET u == ResourceUrl(self, resource, resource_id, options)
    IN  IF Raised(u.result) THEN Prepared(u.result, NoRequest, u.options, u.validated)
        ELSE Prepared(Running, GetWithUrlRequest(self, u.url).req, u.options, u.validated)

HeadRequest(self, resource, resource_id, options) ==
    LET u == ResourceUrl(self, resource, resource_id, options)
    IN  IF Raised(u.result) THEN Prepared(u.result, NoRequest, u.options, u.validated)
        ELSE Prepared(Running, HeadWithUrlRequest(self, u.url).req, u.options, u.validated)

EditWithUrlRequest(self, url, xml) ==
    Prepared(Running,
             ExecuteRequest(self, url, "PUT", SomeText(unicode_encode(xml)), form_headers),
             NoOptions, NotValidated)

EditRequest(self, resource, resource_id, content) ==
    EditWithUrlRequest(self,
                       self.api_url \o resource \o <<"/">> \o Str(resource_id.value),
                       RootContent(content))

DeleteWithUrlRequest(self, url) ==
    Prepared(Running, ExecuteRequest(self, url, "DELETE", NoText, NoHeaders),
             NoOptions, NotValidated)

\* a plausible slip: the ids of a list joined back to front
DeleteUrlReversed(self, resource, resource_ids) ==
    IF resource_ids.islist
    THEN self.api_url \o resource \o <<"/", "?", "id", "=", "[">>
         \o Join(<<",">>, [i \in 1..Len(resource_ids.list) |->
                              Str(resource_ids.list[Len(resource_ids.list) + 1 - i])])
         \o <<"]">>
    ELSE self.api_url \o resource \o <<"/">> \o Str(resource_ids.scalar)

\* delete: the url for a list of ids or for one id
DeleteUrl(self, resource, resource_ids) ==
    IF resource_ids.islist
    THEN self.api_url \o resource \o <<"/", "?", "id", "=", "[">>
         \o Join(<<",">>, [i \in 1..Len(resource_ids.list) |-> Str(resource_ids.list[i])])
         \o <<"]">>
    ELSE self.api_url \o resource \o <<"/">> \o Str(resource_ids.scalar)

DeleteRequest(self, resource, resource_ids) ==
    DeleteWithUrlRequest(self, DeleteUrl(self, resource, resource_ids))

\* the request of a call of a public operation
Request(self, operation, a) ==
    CASE operation = "add" -> AddRequest(self, a.resource, a.content)
      [] operation = "add_with_url" -> AddWithUrlRequest(self, a.url, a.content.xml)
      [] operation = "get" -> GetRequest(self, a.resource, a.resource_id, a.options)
      [] operation = "get_with_url" -> GetWithUrlRequest(self, a.url)
      [] operation = "head" -> HeadRequest(self, a.resource, a.resource_id, a.options)
      [] operation = "head_with_url" -> HeadWithUrlRequest(self, a.url)
      [] operation = "edit" -> EditRequest(self, a.resource, a.resource_id, a.content)
      [] operation = "edit_with_url" -> EditWithUrlRequest(self, a.url, a.content.xml)
      [] operation = "delete" -> DeleteRequest(self, a.resource, a.ids)
      [] operation = "delete_with_url" -> DeleteWithUrlRequest(self, a.url)

----------------------------------------------------------------------------
(* The public operations: the result each makes of _execute's *)

Finished(result, n) == [result |-> result, parses |-> n]

\* add_with_url and edit_with_url: self._parse(self._execute(...)[2])
ParsedResult(self, executed) ==
    IF Raised(executed) THEN Finished(executed, 0)
    ELSE Parse(self, executed.value.data.content, NoMode)

\* get_with_url: the parsed response, and response['prestashop'] of a dict
GetWithUrlResult(self, ptype, executed) ==
    IF Raised(executed) THEN Finished(executed, 0)
    ELSE LET p == Parse(self, executed.value.data.content, ptype)
         IN  IF Raised(p.result) THEN p
             ELSE IF p.result.value.type = "dict"
             THEN IF HasKey(p.result.value.data, "prestashop")
                  THEN LET inner == ItemOf(p.result.value.data, "prestashop")
                       IN  Finished(Return(IF inner.kind = "dict" THEN "dict" ELSE "str",
                                           inner),
                                    p.parses)
                  ELSE Finished(Raise("KeyError", "prestashop", <<>>, {}, NoCode),
                                p.parses)
             ELSE p

\* head_with_url: self._execute(url, 'HEAD')[1]
HeadWithUrlResult(self, executed) ==
    IF Raised(executed) THEN Finished(executed, 0)
    ELSE Finished(Return("header", executed.value.data.header), 0)

\* delete_with_url: True once _execute has returned
DeleteWithUrlResult(self, executed) ==
    IF Raised(executed) THEN Finished(executed, 0)
    ELSE Finished(Return("bool", TRUE), 0)

\* the result of the operation that sent the request
Result(self, operation, a, executed) ==
    CASE operation \in {"add", "add_with_url", "edit", "edit_with_url"} ->
             ParsedResult(self, executed)
      [] operation \in {"get", "get_with_url"} ->
             GetWithUrlResult(self, a.ptype, executed)
      [] operation \in {"head", "head_with_url"} ->
             HeadWithUrlResult(self, executed)
      [] operation \in {"delete", "delete_with_url"} ->
             DeleteWithUrlResult(self, executed)

----------------------------------------------------------------------------
(* The inputs the model draws from *)

Host == <<"http", ":", "/", "/", "shop">>

\* api_url as given to the constructor
RawUrls == {Host, Host \o <<"/">>, Host \o <<"/", "api">>, Host \o <<"/", "api", "/">>}

GivenHeaders ==
    {[present |-> FALSE, value |-> NoHeaders],
     [present |-> TRUE,
      value |-> [n \in {"User-agent", "Content-Type"} |->
                    IF n = "User-agent" THEN "Schkounitz" ELSE "text/xml"]]}

\* 'xml' and 'dict' are the supported parse types; any text can be given
ParseTypes == {"xml", "dict", "json"}

ParseTypeArgs == {NoMode} \cup {SomeMode(m) : m \in ParseTypes}

Resources == {<<"addresses">>}

ResourceIdArgs == {NoId, SomeId(1)}

Urls(self) ==
    {self.api_url \o <<"addresses", "/", "1">>,
     <<"http", ":", "/", "/", "other", "/", "api", "/", "products">>}

\* the keys options are made of, with the value each carries
OptionValue ==
    [k \in {KeyOrder[i] : i \in 1..Len(KeyOrder)} |->
        CASE k = <<"display">> -> <<"[", "firstname", ",", "lastname", "]">>
          [] k = <<"filter", "[", "id", "]">> -> <<"[", "1", "|", "5", "]">>
          [] k = <<"limit">> -> <<"5">>
          [] k = <<"debug">> -> TrueText
          [] OTHER -> <<"1">>]

OptionArgs ==
    {NoOptions, OtherOptions}
    \cup {DictOptions([k \in keys |-> OptionValue[k]]) :
             keys \in {ks \in SUBSET (DOMAIN OptionValue) : Cardinality(ks) <= MaxOptions}}

AddressXml == Serialize(AddressElement)

XmlTexts == {AddressXml, <<"<", "prestashop", ">", "1", " ", "Loop", "<", "/", "prestashop", ">">>}

Contents ==
    {XmlContent(x) : x \in XmlTexts}
    \cup {DictContent(Dict(<< <<"address", Dict(<< <<"firstname", Leaf(<<"Robert">>)>> >>)>> >>))}

RECURSIVE SeqsUpTo(_, _)
SeqsUpTo(S, n) ==
    IF n = 0 THEN {<<>>}
    ELSE LET shorter == SeqsUpTo(S, n - 1)
         IN  shorter \cup {Append(l, x) : l \in shorter, x \in S}

IdsArgs ==
    {IdList(l) : l \in SeqsUpTo(1..MaxId, MaxIds) \cup {<<1, 2, 3>>, <<10, 2>>}}
    \cup {OneId(n) : n \in (1..MaxId) \cup {5, 10}}

\* a version text from its numbers
Dotted(numbers) == Join(<<".">>, [i \in 1..Len(numbers) |-> Str(numbers[i])])

\* header.get('psws-version'): None, or the text of the header
VersionHeaders ==
    {NoText, SomeText(<<>>),
     SomeText(MIN_COMPATIBLE_VERSION), SomeText(MAX_COMPATIBLE_VERSION),
     SomeText(Dotted(<<1, 4, 0, 18>>)), SomeText(Dotted(<<1, 4, 7, 4>>)),
     SomeText(Dotted(<<1, 4, 10>>)), SomeText(Dotted(<<1, 4, 0, 16>>)),
     SomeText(Dotted(<<1, 4, 7, 5, 1>>)),
     SomeText(<<"1", ".", "4", ".", "1", "b">>)}

Statuses == {200, 201, 202, 204, 400, 401, 404, 405, 418, 500}

Malformed == <<"<", "prestashop", ">">>

\* the bodies of the server: any body with a 200 or 201 (none to a HEAD),
\* no body with a 204, an error document with the other statuses
Bodies(method, status) ==
    IF method = "HEAD" \/ status = 204 THEN {<<>>}
    ELSE IF status \in {200, 201}
    THEN {<<>>, Malformed, AddressXml, Serialize(ErrorElement)}
    ELSE {Serialize(ErrorElement)}

\* what client.request can answer to a request of the method
Responses(method) ==
    UNION {{[header |-> [status |-> Str(status), psws |-> version], content |-> body] :
               version \in VersionHeaders, body \in Bodies(method, status)} :
           status \in Statuses}

----------------------------------------------------------------------------
(* The state machine *)

config == <<api_url, debug, parse_type, headers>>

Init ==
    /\ \E raw \in RawUrls : api_url = NormalizeUrl(raw)
    /\ debug \in BOOLEAN
    /\ parse_type \in ParseTypes
    /\ \E given \in GivenHeaders : headers = InitHeaders(given)
    /\ pc = "idle"
    /\ op = ""
    /\ optarg = NoOptions
    /\ arg = BlankArg
    /\ req = NoRequest
    /\ exchanges = 0
    /\ resp = NoResponse
    /\ parses = 0
    /\ validated = NotValidated
    /\ outcome = Running

\* a public operation is called and runs up to client.request, or raises
Call(operation, a) ==
    LET prepared == Request(Self, operation, a)
    IN  /\ op' = operation
        /\ arg' = a
        /\ optarg' = prepared.options
        /\ validated' = prepared.validated
        /\ IF Raised(prepared.result)
           THEN pc' = "done" /\ outcome' = prepared.result /\ req' = NoRequest
           ELSE pc' = "request" /\ outcome' = Running /\ req' = prepared.req
        /\ UNCHANGED <<config, exchanges, resp, parses>>

Add ==
    /\ pc = "idle"
    /\ \E resource \in Resources, content \in Contents :
           Call("add", [BlankArg EXCEPT !.resource = resource, !.content = content])

AddWithUrl ==
    /\ pc = "idle"
    /\ \E url \in Urls(Self), xml \in XmlTexts :
           Call("add_with_url", [BlankArg EXCEPT !.url = url, !.content = XmlContent(xml)])

Get ==
    /\ pc = "idle"
    /\ \E resource \in Resources, resource_id \in ResourceIdArgs,
          options \in OptionArgs, ptype \in ParseTypeArgs :
           Call("get", [BlankArg EXCEPT !.resource = resource, !.resource_id = resource_id,
                                        !.options = options, !.ptype = ptype])

GetWithUrl ==
    /\ pc = "idle"
    /\ \E url \in Urls(Self), ptype \in ParseTypeArgs :
           Call("get_with_url", [BlankArg EXCEPT !.url = url, !.ptype = ptype])

HeadOp ==
    /\ pc = "idle"
    /\ \E resource \in Resources, resource_id \in ResourceIdArgs, options \in OptionArgs :
           Call("head", [BlankArg EXCEPT !.resource = resource, !.resource_id = resource_id,
                                         !.options = options])

HeadWithUrl ==
    /\ pc = "idle"
    /\ \E url \in Urls(Self) :
           Call("head_with_url", [BlankArg EXCEPT !.url = url])

Edit ==
    /\ pc = "idle"
    /\ \E resource \in Resources, content \in Contents :
           Call("edit", [BlankArg EXCEPT !.resource = resource, !.resource_id = SomeId(1),
                                         !.content = content])

EditWithUrl ==
    /\ pc = "idle"
    /\ \E url \in Urls(Self), xml \in XmlTexts :
           Call("edit_with_url", [BlankArg EXCEPT !.url = url, !.content = XmlContent(xml)])

Delete ==
    /\ pc = "idle"
    /\ \E resource \in Resources, resource_ids \in IdsArgs :
           Call("delete", [BlankArg EXCEPT !.resource = resource, !.ids = resource_ids])

DeleteWithUrl ==
    /\ pc = "idle"
    /\ \E url \in Urls(Self) :
           Call("delete_with_url", [BlankArg EXCEPT !.url = url])

\* client.request answers, _execute checks the answer, and the operation
\* makes its result of it
Exchange ==
    /\ pc = "request"
    /\ \E response \in Responses(req.method) :
           LET r == Result(Self, op, arg, Execute(Self, response))
           IN  /\ resp' = response
               /\ exchanges' = exchanges + 1
               /\ parses' = parses + r.parses
               /\ outcome' = r.result
               /\ pc' = "done"
    /\ UNCHANGED <<config, op, optarg, arg, req, validated>>

\* control is back with the caller
ReturnToCaller ==
    /\ pc = "done"
    /\ pc' = "idle"
    /\ op' = ""
    /\ optarg' = NoOptions
    /\ arg' = BlankArg
    /\ req' = NoRequest
    /\ exchanges' = 0
    /\ resp' = NoResponse
    /\ parses' = 0
    /\ validated' = NotValidated
    /\ outcome' = Running
    /\ UNCHANGED config

Next ==
    \/ Add \/ AddWithUrl \/ Get \/ GetWithUrl \/ HeadOp \/ HeadWithUrl
    \/ Edit \/ EditWithUrl \/ Delete \/ DeleteWithUrl
    \/ Exchange \/ ReturnToCaller

Spec == Init /\ [][Next]_vars

----------------------------------------------------------------------------
(* What the claims speak of *)

\* the status the transport answered with
AnsweredStatus == ParseInt(resp.header.status)

\* a call that has performed its exchange and is back
Answered == pc = "done" /\ exchanges = 1

\* the parse mode of the call: the one asked for, else the client's default
EffectiveMode == IF arg.ptype.present THEN arg.ptype.value ELSE parse_type

\* the operations that parse the body of the response
ParsingOps == {"add", "add_with_url", "get", "get_with_url", "edit", "edit_with_url"}

AllowList == {<<"filter">>, <<"display">>, <<"sort">>, <<"limit">>, <<"schema">>}

\* the text of a key before its first "["
PrefixOf(k) ==
    CHOOSE p \in {SubSeq(k, 1, n) : n \in 0..Len(k)} :
        /\ \A i \in 1..Len(p) : p[i] # "["
        /\ (Len(p) = Len(k) \/ k[Len(p) + 1] = "[")

Offending(m) == {PrefixOf(k) : k \in DOMAIN m} \ AllowList

\* a precedes b in the component-wise order of versions: at the first place
\* where they differ a has the smaller component, or a has ended
Precedes(a, b) ==
    \E k \in 1..Len(b) :
        /\ k <= Len(a) + 1
        /\ \A i \in 1..(k - 1) : a[i] = b[i]
        /\ (k = Len(a) + 1 \/ ComponentLess(a[k], b[k]))

\* strictly between 1.4.0.17 and 1.4.7.5
StrictlyBetweenBounds(v) ==
    /\ Precedes(<<NumComponent(1), NumComponent(4), NumComponent(0), NumComponent(17)>>, v)
    /\ Precedes(v, <<NumComponent(1), NumComponent(4), NumComponent(7), NumComponent(5)>>)

VersionCheckPassed == outcome.label # incompatible_label

----------------------------------------------------------------------------
(* C1 *)

DocumentedReason ==
    [c \in {204, 400, 404, 405, 500} |->
        CASE c = 204 -> "No content"
          [] c = 400 -> "Bad Request"
          [] c = 404 -> "Not Found"
          [] c = 405 -> "Method Not Allowed"
          [] c = 500 -> "Internal Server Error"]

\* C1: whatever the method and the version header, the status of the response
\* decides the outcome: 200 and 201 raise no status error; 401 raises the
\* authentication error with code 401; 204, 400, 404, 405 and 500 raise the
\* generic service error with the code and its documented reason; any other
\* status outside 2xx raises the generic "unexpected status" service error
\* with the code; and a call returns a value only after a 200 or a 201.
StatusDecidesOutcome ==
    Answered =>
        /\ AnsweredStatus \in {200, 201} =>
               outcome.label \notin {error_label, unexpected_label}
        /\ AnsweredStatus = 401 =>
               /\ outcome.kind = "PrestaShopAuthenticationError"
               /\ outcome.code = SomeCode(401)
        /\ \A c \in DOMAIN DocumentedReason :
               AnsweredStatus = c =>
                   /\ outcome.kind = "PrestaShopWebServiceError"
                   /\ outcome.code = SomeCode(c)
                   /\ outcome.label = error_label
                   /\ outcome.args = <<Str(c), <<DocumentedReason[c]>>>>
        /\ (AnsweredStatus \notin 200..299 /\ AnsweredStatus \notin {400, 401, 404, 405, 500}) =>
               /\ outcome.kind = "PrestaShopWebServiceError"
               /\ outcome.code = SomeCode(AnsweredStatus)
               /\ outcome.label = unexpected_label
        /\ outcome.kind = "return" => AnsweredStatus \in {200, 201}

\* a DELETE answered 418 with a version header equal to the lower bound
StatusDecidesOutcomeWitness ==
    /\ Answered
    /\ req.method = "DELETE"
    /\ resp.header.status = <<"4", "1", "8">>
    /\ resp.header.psws = SomeText(MIN_COMPATIBLE_VERSION)
    /\ outcome.label = unexpected_label
    /\ outcome.code = SomeCode(418)

----------------------------------------------------------------------------
(* C2 *)

\* C2 as stated: after a 200 or 201 the version check passes iff the version
\* header is absent or its value lies strictly between the two bounds.
VersionPassesIffAbsentOrBetween ==
    (Answered /\ AnsweredStatus \in {200, 201}) =>
        (VersionCheckPassed <=>
            \/ ~resp.header.psws.present
            \/ StrictlyBetweenBounds(LooseVersion(resp.header.psws.value)))

\* C2 as amended: after a 200 or 201 the version check passes iff the version
\* header is absent or empty, or its value lies strictly between the two
\* bounds; a version equal to a bound is rejected with the generic error.
VersionPassesIffMissingOrBetween ==
    (Answered /\ AnsweredStatus \in {200, 201}) =>
        /\ VersionCheckPassed <=>
              \/ ~resp.header.psws.present
              \/ resp.header.psws.value = <<>>
              \/ StrictlyBetweenBounds(LooseVersion(resp.header.psws.value))
        /\ ~VersionCheckPassed =>
              /\ outcome.kind = "PrestaShopWebServiceError"
              /\ outcome.args = <<resp.header.psws.value>>

\* a 200 whose version header equals the upper bound is rejected
VersionBoundRejectedWitness ==
    /\ Answered
    /\ resp.header.status = <<"2", "0", "0">>
    /\ resp.header.psws = SomeText(<<"1", ".", "4", ".", "7", ".", "5">>)
    /\ outcome.kind = "PrestaShopWebServiceError"
    /\ outcome.label = incompatible_label

----------------------------------------------------------------------------
(* C3 *)

\* C3: in parse mode 'dict', get returns the payload without the root label
\* 'prestashop', and get_with_url returns the full document, whose top-level
\* key is 'prestashop'.
GetStripsRootGetWithUrlKeepsIt ==
    (/\ Answered
     /\ EffectiveMode = "dict"
     /\ AnsweredStatus \in {200, 201}
     /\ VersionCheckPassed
     /\ resp.content = AddressXml) =>
        /\ op = "get" =>
               /\ outcome.kind = "return"
               /\ outcome.value.type = "dict"
               /\ HasKey(outcome.value.data, "address")
               /\ ~HasKey(outcome.value.data, "prestashop")
        /\ op = "get_with_url" =>
               /\ outcome.kind = "return"
               /\ outcome.value.type = "dict"
               /\ HasKey(outcome.value.data, "prestashop")

----------------------------------------------------------------------------
(* C4 *)

\* C4: validation succeeds when every key's text before its first "[" is in
\* the allow-list; otherwise it fails with a service error that names every
\* offending prefix; and it leaves the mapping as it was given.
ValidateNamesEveryOffender ==
    (validated.ran /\ arg.options.kind = "dict") =>
        /\ Offending(arg.options.map) = {} => ~Raised(validated.result)
        /\ Offending(arg.options.map) # {} =>
               /\ validated.result.kind = "PrestaShopWebServiceError"
               /\ validated.result.names = Offending(arg.options.map)
               /\ pc = "done"
               /\ outcome = validated.result
        /\ validated.options = arg.options

\* options with two offending keys, one of them bracketed
ValidateNamesEveryOffenderWitness ==
    /\ validated.ran
    /\ DOMAIN arg.options.map = {<<"bogus">>, <<"price", "[", "x", "]">>}
    /\ validated.result.names = {<<"bogus">>, <<"price">>}

----------------------------------------------------------------------------
(* C5 *)

\* C5: edit and edit_with_url send a PUT whose body is the form encoding of
\* the one field xml, as add's POST is, with the form content type; a dict
\* is wrapped in 'prestashop' first.
EditBodyIsFormEncoded ==
    (pc \in {"request", "done"} /\ op \in {"edit", "edit_with_url"}) =>
        /\ req.method = "PUT"
        /\ req.headers["Content-Type"] = "application/x-www-form-urlencoded"
        /\ req.body = SomeText(<<"xml", "=">> \o QuotePlus(RootContent(arg.content)))
        /\ req.body = Request(Self, IF op = "edit" THEN "add" ELSE "add_with_url", arg).req.body

----------------------------------------------------------------------------
(* C6 *)

\* the same client with the debug flag the other way
Twin == [Self EXCEPT !.debug = ~debug]

\* C6: with debug on and with debug off a call sends the same request, has
\* the same outcome and leaves the caller's options with the same contents.
DebugIsObservational ==
    /\ pc = "request" =>
           /\ Request(Twin, op, arg).req = req
           /\ Request(Twin, op, arg).options = optarg
    /\ pc = "done" =>
           /\ Request(Twin, op, arg).options = optarg
           /\ exchanges = 0 => Request(Twin, op, arg).result = outcome
           /\ exchanges = 1 =>
                  /\ Request(Twin, op, arg).req = req
                  /\ Result(Twin, op, arg, Execute(Twin, resp)).result = outcome

----------------------------------------------------------------------------
(* C7 *)

\* C7: an empty body is rejected with a service error before the XML parser
\* runs, whatever the parse mode: add, get, edit and their url twins never
\* return a value for an empty body.
EmptyBodyRejected ==
    (Answered /\ op \in ParsingOps /\ resp.content = <<>>) =>
        /\ outcome.kind # "return"
        /\ parses = 0
        /\ (AnsweredStatus \in {200, 201} /\ VersionCheckPassed) =>
               /\ outcome.kind = "PrestaShopWebServiceError"
               /\ outcome.label = "HTTP response is empty"

\* a get that asked for an unsupported parse mode and got an empty body
EmptyBodyRejectedWitness ==
    /\ Answered
    /\ op = "get"
    /\ arg.ptype = SomeMode("json")
    /\ resp.content = <<>>
    /\ outcome.label = "HTTP response is empty"
    /\ parses = 0

----------------------------------------------------------------------------
(* C8 *)

\* the ids in the order given, with a comma between two of them
RECURSIVE CommaList(_)
CommaList(ids) ==
    IF ids = <<>> THEN <<>>
    ELSE IF Len(ids) = 1 THEN Str(ids[1])
    ELSE CommaList(SubSeq(ids, 1, Len(ids) - 1)) \o <<",">> \o Str(ids[Len(ids)])

\* C8: delete sends one DELETE to the base url and the resource followed by
\* "/?id=[id1,id2,...]" for a list of ids in the given order, or by "/<id>"
\* for one id; it returns true exactly when the executor did not raise, and
\* raises the executor's error otherwise.
DeleteUrlAndResult ==
    (pc \in {"request", "done"} /\ op = "delete") =>
        /\ req.method = "DELETE"
        /\ req.body = NoText
        /\ EndsWith(api_url, <<"/", "api", "/">>)
        /\ arg.ids.islist =>
               req.url = api_url \o arg.resource \o <<"/", "?", "id", "=", "[">>
                         \o CommaList(arg.ids.list) \o <<"]">>
        /\ ~arg.ids.islist =>
               req.url = api_url \o arg.resource \o <<"/">> \o Str(arg.ids.scalar)
        /\ arg.ids = IdList(<<1, 2, 3>>) =>
               EndsWith(req.url, <<"id", "=", "[", "1", ",", "2", ",", "3", "]">>)
        /\ arg.ids = OneId(5) => EndsWith(req.url, <<"/", "5">>)
        /\ pc = "done" =>
               /\ exchanges = 1
               /\ (AnsweredStatus \in {200, 201} /\ VersionCheckPassed) =>
                      outcome = Return("bool", TRUE)
               /\ ~(AnsweredStatus \in {200, 201} /\ VersionCheckPassed) =>
                      /\ Raised(outcome)
                      /\ outcome = Execute(Self, resp)

\* delete of the ids 1, 2, 3 that returned true
DeleteUrlAndResultWitness ==
    /\ pc = "done"
    /\ op = "delete"
    /\ arg.ids = IdList(<<1, 2, 3>>)
    /\ EndsWith(req.url, <<"addresses", "/", "?", "id", "=", "[", "1", ",", "2", ",", "3", "]">>)
    /\ outcome = Return("bool", TRUE)

----------------------------------------------------------------------------
(* C9 *)

\* get or head was given options that its validation rejects
OptionsRejected ==
    /\ op \in {"get", "head"}
    /\ arg.options.kind # "none"
    /\ (arg.options.kind = "dict" => Offending(arg.options.map) # {})

\* C9 as stated: every call has performed exactly one exchange when it
\* returns or raises.
ExactlyOneExchange == pc = "done" => exchanges = 1

\* C9 as amended: a call performs at most one exchange and never a second
\* one: exactly one once it has reached the executor, whether it then
\* succeeds or fails, and none when get or head raise on their options
\* before any request is sent.
AtMostOneExchange ==
    /\ exchanges \in {0, 1}
    /\ pc \in {"idle", "request"} => exchanges = 0
    /\ pc = "done" => exchanges = (IF OptionsRejected THEN 0 ELSE 1)
    /\ (pc = "done" /\ exchanges = 0) =>
           /\ Raised(outcome)
           /\ req = NoRequest

\* a head whose options were rejected: no exchange
NoExchangeWitness ==
    /\ pc = "done"
    /\ op = "head"
    /\ OptionsRejected
    /\ exchanges = 0
    /\ outcome.label = "Unsupported parameters: %s"

----------------------------------------------------------------------------
(* C10 *)

\* C10: whatever a public operation raises is the generic service error or
\* the authentication error, and the latter only for a 401.
OnlyServiceErrors ==
    (pc = "done" /\ Raised(outcome)) =>
        /\ IsWebServiceError(outcome.kind)
        /\ outcome.kind = "PrestaShopAuthenticationError" =>
               (exchanges = 1 /\ AnsweredStatus = 401)

====
